---------------------------- MODULE Spec2Model ----------------------------
(***************************************************************************)
(* Model of the integer-sqrt crate (src/src/lib.rs): the trait             *)
(* IntegerSquareRoot with its provided method integer_sqrt and the method  *)
(* integer_sqrt_checked that the macro impl_isqrt instantiates for usize,  *)
(* u128, u64, u32, u16, u8, isize, i128, i64, i32, i16 and i8.             *)
(*                                                                         *)
(* A value of a W-bit primitive type is its bit pattern, a sequence of W/8 *)
(* bytes, least significant first (two's complement for the i family), so  *)
(* that 64- and 128-bit values keep their width.  A mathematical natural   *)
(* number is a byte sequence of any length.                                *)
(***************************************************************************)
EXTENDS Integers, Sequences, FiniteSets, TLC

VARIABLES
    overflow_checks,  \* build profile: TRUE = arithmetic overflow panics, FALSE = it wraps
    ty,               \* the primitive type $t of the instantiation that is called
    self,             \* *self, the receiver
    pc,               \* position of the call
    shift,            \* let mut shift
    n_shifted,        \* let mut n_shifted
    result,           \* let mut result
    checked,          \* what integer_sqrt_checked gave back to integer_sqrt
    ret,              \* how integer_sqrt ended
    nsearch,          \* iterations of the while loop so far
    ndigit,           \* iterations of the loop { } so far
    first             \* an earlier call of integer_sqrt and how it ended

vars == <<overflow_checks, ty, self, pc, shift, n_shifted, result, checked, ret,
          nsearch, ndigit, first>>

---------------------------------------------------------------------------
(* Natural numbers of any size: byte sequences, least significant first.   *)

Zeros(k) == [i \in 1..k |-> 0]

\* x cut or zero-extended to k bytes: x modulo 2^(8k)
Trunc(x, k) == [i \in 1..k |-> IF i <= Len(x) THEN x[i] ELSE 0]

RECURSIVE Strip(_)
\* x without its leading zero bytes
Strip(x) ==
    IF x = <<>> \/ x[Len(x)] # 0 THEN x ELSE Strip(SubSeq(x, 1, Len(x) - 1))

IsZero(x) == \A i \in 1..Len(x) : x[i] = 0

RECURSIVE NatAddC(_, _, _)
NatAddC(a, b, c) ==
    IF a = <<>> /\ b = <<>> THEN (IF c = 0 THEN <<>> ELSE <<c>>)
    ELSE LET da == IF a = <<>> THEN 0 ELSE Head(a)
             db == IF b = <<>> THEN 0 ELSE Head(b)
             s  == da + db + c
         IN  <<s % 256>> \o NatAddC(IF a = <<>> THEN a ELSE Tail(a),
                                    IF b = <<>> THEN b ELSE Tail(b), s \div 256)

NatAdd(a, b) == NatAddC(a, b, 0)

RECURSIVE MulByte(_, _, _)
\* a * d + c for one byte d
MulByte(a, d, c) ==
    IF a = <<>> THEN (IF c = 0 THEN <<>> ELSE <<c>>)
    ELSE LET p == Head(a) * d + c
         IN  <<p % 256>> \o MulByte(Tail(a), d, p \div 256)

RECURSIVE NatMulS(_, _)
NatMulS(a, b) ==
    IF b = <<>> THEN <<>>
    ELSE NatAdd(MulByte(a, Head(b), 0), <<0>> \o NatMulS(a, Tail(b)))

NatMul(a, b) == NatMulS(Strip(a), Strip(b))

RECURSIVE CmpFrom(_, _, _)
\* -1, 0, 1 as a < b, a = b, a > b, comparing the bytes i, i-1, ..., 1
CmpFrom(a, b, i) ==
    IF i = 0 THEN 0
    ELSE LET da == IF i <= Len(a) THEN a[i] ELSE 0
             db == IF i <= Len(b) THEN b[i] ELSE 0
         IN  IF da < db THEN -1 ELSE IF da > db THEN 1 ELSE CmpFrom(a, b, i - 1)

NatCmp(a, b) == CmpFrom(a, b, IF Len(a) > Len(b) THEN Len(a) ELSE Len(b))
NatLeq(a, b) == NatCmp(a, b) <= 0
NatLt(a, b)  == NatCmp(a, b) < 0
NatEq(a, b)  == NatCmp(a, b) = 0

RECURSIVE Dec(_)
\* the natural number written with the decimal digits ds, most significant first
Dec(ds) ==
    IF ds = <<>> THEN <<>>
    ELSE NatAdd(MulByte(Dec(SubSeq(ds, 1, Len(ds) - 1)), 10, 0), <<ds[Len(ds)]>>)

\* r is the floor of the square root of n, in unbounded arithmetic
IsFloorSqrt(r, n) ==
    /\ NatLeq(NatMul(r, r), n)
    /\ NatLt(n, NatMul(NatAdd(r, <<1>>), NatAdd(r, <<1>>)))

---------------------------------------------------------------------------
(* The primitive types and their operations.                               *)

Ty(bits, signed) == [bits |-> bits, signed |-> signed]

\* impl_isqrt!(usize, u128, u64, u32, u16, u8, isize, i128, i64, i32, i16, i8);
Names ==
    {"usize", "u128", "u64", "u32", "u16", "u8",
     "isize", "i128", "i64", "i32", "i16", "i8"}

\* the pointer widths of the targets: the width of usize and isize
PointerWidths == {16, 32, 64}

\* the type a name stands for on a target with pointers of pw bits
TypeOf(name, pw) ==
    CASE name = "u8"    -> Ty(8, FALSE)
      [] name = "u16"   -> Ty(16, FALSE)
      [] name = "u32"   -> Ty(32, FALSE)
      [] name = "u64"   -> Ty(64, FALSE)
      [] name = "u128"  -> Ty(128, FALSE)
      [] name = "usize" -> Ty(pw, FALSE)
      [] name = "i8"    -> Ty(8, TRUE)
      [] name = "i16"   -> Ty(16, TRUE)
      [] name = "i32"   -> Ty(32, TRUE)
      [] name = "i64"   -> Ty(64, TRUE)
      [] name = "i128"  -> Ty(128, TRUE)
      [] name = "isize" -> Ty(pw, TRUE)

\* The macro gives every name the same body, so an instantiation is told from
\* another by its width and its signedness alone.
Types == {TypeOf(name, pw) : name \in Names, pw \in PointerWidths}

NBytes(t) == t.bits \div 8

Zero(t) == Zeros(NBytes(t))

\* $t::MAX
MaxValue(t) ==
    [i \in 1..NBytes(t) |-> IF t.signed /\ i = NBytes(t) THEN 127 ELSE 255]

\* *self < 0
IsNegative(t, x) == t.signed /\ x[Len(x)] >= 128

\* x >> s for 0 <= s < t.bits: logical for the u family, arithmetic for the i family
Shr(t, x, s) ==
    LET fill   == IF IsNegative(t, x) THEN 255 ELSE 0
        q      == s \div 8
        r      == s % 8
        Get(j) == IF j <= Len(x) THEN x[j] ELSE fill
    IN  [i \in 1..Len(x) |->
            (Get(i + q) \div 2^r) + (Get(i + q + 1) % 2^r) * 2^(8 - r)]

\* x.wrapping_shr(s): the shift amount is taken modulo the width
WrappingShr(t, x, s) == Shr(t, x, s % t.bits)

\* x << 1: the top bit is shifted out
Shl1(t, x) ==
    [i \in 1..Len(x) |->
        ((x[i] * 2) % 256) + (IF i > 1 THEN x[i - 1] \div 128 ELSE 0)]

\* x + 1: whether it overflows $t, and its value modulo 2^bits
AddOne(t, x) ==
    [overflow |-> x = MaxValue(t),
     value    |-> Trunc(NatAdd(x, <<1>>), Len(x))]

\* -x modulo 2^bits
Negate(x) == Trunc(NatAdd([i \in 1..Len(x) |-> 255 - x[i]], <<1>>), Len(x))

\* |x| as a natural number
Magnitude(t, x) == IF IsNegative(t, x) THEN Negate(x) ELSE x

\* a * b: whether the product overflows $t, and its value modulo 2^bits
Mul(t, a, b) ==
    LET full     == NatMul(Magnitude(t, a), Magnitude(t, b))
        negative == IsNegative(t, a) # IsNegative(t, b)
        limit    == IF t.signed /\ negative
                    THEN Zeros(NBytes(t) - 1) \o <<128>>
                    ELSE MaxValue(t)
        low      == Trunc(full, NBytes(t))
    IN  [overflow |-> ~NatLeq(full, limit),
         value    |-> IF negative THEN Negate(low) ELSE low]

\* a <= b in $t
Le(t, a, b) ==
    IF IsNegative(t, a) # IsNegative(t, b) THEN IsNegative(t, a) ELSE NatLeq(a, b)

\* a < b in $t
Lt(t, a, b) == ~Le(t, b, a)

---------------------------------------------------------------------------
(* Outcomes of a call.                                                     *)

Pending  == [kind |-> "pending", val |-> <<>>, msg |-> ""]
None     == [kind |-> "None", val |-> <<>>, msg |-> ""]
Some(r)  == [kind |-> "Some", val |-> r, msg |-> ""]
Value(r) == [kind |-> "value", val |-> r, msg |-> ""]
Panic(m) == [kind |-> "panic", val |-> <<>>, msg |-> m]

---------------------------------------------------------------------------
(* integer_sqrt_checked, piece by piece.                                   *)

\* if *self < 0, with the off-by-one slip *self <= 0
NegativeCheckLe(t, slf) == Le(t, slf, Zero(t))

\* if *self < 0
NegativeCheck(t, slf) == Lt(t, slf, Zero(t))

\* while n_shifted != 0, without the test against *self
SearchCondNoWrapTest(t, slf, ns) == ~IsZero(ns)

\* while n_shifted != 0 && n_shifted != *self
SearchCond(t, slf, ns) == ~IsZero(ns) /\ ns # slf

\* the shift the search stopped at, without the step back
FinalShiftKept(sh) == sh

\* shift = shift - 2;
FinalShift(sh) == sh - 2

\* shift = shift.saturating_sub(2);
NextShift(sh) == IF sh >= 2 THEN sh - 2 ELSE 0

\* One pass through the body of loop { } up to the test of shift: the panic
\* message if the pass panics, and the new result otherwise.  With overflow
\* checks (oc) an overflowing +, * or >> panics; without them + and * wrap
\* modulo 2^bits and >> takes its shift amount modulo the width.
DigitBody(oc, t, slf, sh, res) ==
    LET doubled          == Shl1(t, res)
        sum              == AddOne(t, doubled)
        candidate_result == sum.value
        square           == Mul(t, candidate_result, candidate_result)
        shifted          == Shr(t, slf, sh % t.bits)
    IN  IF oc /\ sum.overflow
        THEN [panic |-> "attempt to add with overflow", result |-> res]
        ELSE IF oc /\ square.overflow
        THEN [panic |-> "attempt to multiply with overflow", result |-> res]
        ELSE IF oc /\ sh >= t.bits
        THEN [panic |-> "attempt to shift right with overflow", result |-> res]
        ELSE [panic  |-> "",
              result |-> IF Le(t, square.value, shifted)
                         THEN candidate_result ELSE doubled]

\* .expect("cannot calculate square root of negative number")
Expect(c) ==
    IF c.kind = "Some" THEN Value(c.val)
    ELSE IF c.kind = "None"
    THEN Panic("cannot calculate square root of negative number")
    ELSE c

---------------------------------------------------------------------------
(* The inputs a call is made with.                                         *)

\* how far above 0 and how far below $t::MAX the sampled inputs reach, and how
\* far below 0 for the i family
Low == 24
High == 8
NegCount == 4
\* how many of the lowest and of the highest bit positions are all sampled
Edge == 16

\* the natural number k < 2^24 as a value of t (modulo 2^bits)
FromNat(t, k) ==
    [i \in 1..NBytes(t) |-> IF i <= 3 THEN (k \div 256^(i - 1)) % 256 ELSE 0]

\* the value of t whose only set bit is bit j
Pow2(t, j) ==
    [i \in 1..NBytes(t) |-> IF i = (j \div 8) + 1 THEN 2^(j % 8) ELSE 0]

\* the value of t whose bits 0 .. j-1 are set
Pow2m1(t, j) ==
    [i \in 1..NBytes(t) |->
        IF i <= j \div 8 THEN 255
        ELSE IF i = (j \div 8) + 1 THEN 2^(j % 8) - 1 ELSE 0]

\* the bit positions sampled: the lowest, the highest, and both sides of every
\* byte boundary
SampleBits(t) ==
    {j \in 0..(t.bits - 1) : j < Edge \/ j >= t.bits - Edge \/ j % 8 \in {0, 7}}

Samples(t) ==
    {FromNat(t, k) : k \in 0..Low}
        \cup {[MaxValue(t) EXCEPT ![1] = 255 - k] : k \in 0..High}
        \cup {Pow2(t, j) : j \in SampleBits(t)}
        \cup {Pow2m1(t, j + 1) : j \in SampleBits(t)}
        \cup (IF t.signed
              THEN {[i \in 1..NBytes(t) |-> IF i = 1 THEN 256 - k ELSE 255] :
                        k \in 1..NegCount}
              ELSE {})

\* every value of the 8-bit types, and samples of the wider ones: small values,
\* values next to $t::MAX, single bits, runs of low bits, negative values
Inputs(t) == IF t.bits = 8 THEN {<<b>> : b \in 0..255} ELSE Samples(t)

NoCall == [ty |-> Ty(8, FALSE), self |-> <<0>>, checked |-> Pending, ret |-> Pending]

---------------------------------------------------------------------------
(* One call of integer_sqrt, step by step.                                 *)

Init ==
    /\ overflow_checks \in BOOLEAN
    /\ ty \in Types
    /\ self \in Inputs(ty)
    /\ pc = "integer_sqrt"
    /\ shift = 0
    /\ n_shifted = Zero(ty)
    /\ result = Zero(ty)
    /\ checked = Pending
    /\ ret = Pending
    /\ nsearch = 0
    /\ ndigit = 0
    /\ first = NoCall

\* integer_sqrt calls integer_sqrt_checked, which tests the sign and sets up
\* the search for the greatest shift
Enter ==
    /\ pc = "integer_sqrt"
    /\ IF NegativeCheck(ty, self)
       THEN /\ checked' = None
            /\ pc' = "expect"
            /\ UNCHANGED <<shift, n_shifted>>
       ELSE /\ shift' = 2
            /\ n_shifted' = Shr(ty, self, 2)
            /\ pc' = "search"
            /\ UNCHANGED checked
    /\ UNCHANGED <<overflow_checks, ty, self, result, ret, nsearch, ndigit, first>>

\* one iteration of the while loop
SearchStep ==
    /\ pc = "search"
    /\ SearchCond(ty, self, n_shifted)
    /\ shift' = shift + 2
    /\ n_shifted' = WrappingShr(ty, self, shift + 2)
    /\ nsearch' = nsearch + 1
    /\ UNCHANGED <<overflow_checks, ty, self, pc, result, checked, ret, ndigit, first>>

\* the while loop is left
SearchExit ==
    /\ pc = "search"
    /\ ~SearchCond(ty, self, n_shifted)
    /\ shift' = FinalShift(shift)
    /\ result' = Zero(ty)
    /\ pc' = "digits"
    /\ UNCHANGED <<overflow_checks, ty, self, n_shifted, checked, ret, nsearch,
                   ndigit, first>>

\* one iteration of loop { }: a panic unwinds through integer_sqrt, the
\* iteration at shift 0 returns Some(result)
DigitStep ==
    /\ pc = "digits"
    /\ \E b \in {DigitBody(overflow_checks, ty, self, shift, result)} :
           IF b.panic # ""
           THEN /\ checked' = Panic(b.panic)
                /\ ret' = Panic(b.panic)
                /\ pc' = "panicked"
                /\ UNCHANGED <<shift, result>>
           ELSE /\ result' = b.result
                /\ ret' = ret
                /\ IF shift = 0
                   THEN /\ checked' = Some(b.result)
                        /\ pc' = "expect"
                        /\ shift' = shift
                   ELSE /\ shift' = NextShift(shift)
                        /\ UNCHANGED <<checked, pc>>
    /\ ndigit' = ndigit + 1
    /\ UNCHANGED <<overflow_checks, ty, self, n_shifted, nsearch, first>>

\* integer_sqrt unwraps what integer_sqrt_checked returned
ExpectStep ==
    /\ pc = "expect"
    /\ ret' = Expect(checked)
    /\ pc' = IF checked.kind = "Some" THEN "returned" ELSE "panicked"
    /\ UNCHANGED <<overflow_checks, ty, self, shift, n_shifted, result, checked,
                   nsearch, ndigit, first>>

Next == Enter \/ SearchStep \/ SearchExit \/ DigitStep \/ ExpectStep

Spec == Init /\ [][Next]_vars

Done == pc \in {"returned", "panicked"}

---------------------------------------------------------------------------
(* Two calls of integer_sqrt in turn: the first one is kept in first when  *)
(* the second one begins.                                                  *)

\* how far above 0 and how far below a type's MAX the inputs of the pairs reach
PairLow == 4
PairHigh == 1

\* non-negative inputs of t: small values and the values next to the MAX of
\* every type that is not wider than t
PairInputs(t) ==
    {x \in {FromNat(t, k) : k \in 0..PairLow}
            \cup {Trunc([MaxValue(u) EXCEPT ![1] = 255 - k], NBytes(t)) :
                      u \in {v \in Types : v.bits <= t.bits}, k \in 0..PairHigh} :
        ~IsNegative(t, x)}

PairInit ==
    /\ overflow_checks \in BOOLEAN
    /\ ty \in Types
    /\ self \in PairInputs(ty)
    /\ pc = "integer_sqrt"
    /\ shift = 0
    /\ n_shifted = Zero(ty)
    /\ result = Zero(ty)
    /\ checked = Pending
    /\ ret = Pending
    /\ nsearch = 0
    /\ ndigit = 0
    /\ first = NoCall

\* the first call is over; integer_sqrt is called again, on a value of the same
\* type that is not smaller, or on the same number in another type
CallAgain ==
    /\ Done
    /\ first = NoCall
    /\ first' = [ty |-> ty, self |-> self, checked |-> checked, ret |-> ret]
    /\ \E t \in Types : \E b \in PairInputs(t) :
           /\ \/ t = ty /\ NatLeq(self, b)
              \/ t # ty /\ NatEq(self, b)
           /\ ty' = t
           /\ self' = b
           /\ n_shifted' = Zero(t)
           /\ result' = Zero(t)
    /\ pc' = "integer_sqrt"
    /\ shift' = 0
    /\ checked' = Pending
    /\ ret' = Pending
    /\ nsearch' = 0
    /\ ndigit' = 0
    /\ UNCHANGED overflow_checks

PairNext == Next \/ CallAgain

PairSpec == PairInit /\ [][PairNext]_vars

---------------------------------------------------------------------------
(* The claims.                                                             *)

\* integer_sqrt_checked has given its answer, or has panicked
CheckedOver == checked.kind # "pending"

\* x < 2^k, for a value x of t and 0 < k < t.bits
BelowPow2(t, x, k) == NatLt(x, Pow2(t, k))

\* C1: for every type and every n >= 0 of it, integer_sqrt_checked(n) returns
\* Some(r) with r*r <= n and (r+1)*(r+1) > n or not in the type: r is the floor
\* of the square root of n.
C1_FloorSqrt ==
    (CheckedOver /\ ~IsNegative(ty, self)) =>
        /\ checked.kind = "Some"
        /\ IsFloorSqrt(checked.val, self)

\* C2: integer_sqrt_checked(n) returns None if and only if n < 0; a negative n
\* gives None at once, without an iteration of either loop, and no value that
\* is not negative ever gives None.
C2_NoneIffNegative ==
    /\ CheckedOver => (checked.kind = "None" <=> IsNegative(ty, self))
    /\ IsNegative(ty, self) =>
           /\ pc \notin {"search", "digits"}
           /\ nsearch = 0 /\ ndigit = 0
           /\ pc # "integer_sqrt" => checked = None
    /\ ~ty.signed => checked.kind # "None"

C2_Witness ==
    /\ IsNegative(ty, self) /\ checked = None /\ pc = "panicked"

\* C3: integer_sqrt panics exactly when integer_sqrt_checked returns None,
\* that is exactly when n < 0; otherwise it returns the r of Some(r); it never
\* fails for an n that is not negative.
C3_ThinWrapper ==
    Done =>
        /\ ret.kind = "panic" <=> checked.kind = "None"
        /\ ret.kind = "panic" <=> IsNegative(ty, self)
        /\ ret.kind = "value" => checked = Some(ret.val)
        /\ ~IsNegative(ty, self) => ret.kind = "value"

\* the floor of the square root of $t::MAX as the claim C4 gives it
SqrtOfMax(t) ==
    CASE t = Ty(8, FALSE)   -> Dec(<<1, 5>>)
      [] t = Ty(8, TRUE)    -> Dec(<<1, 1>>)
      [] t = Ty(16, FALSE)  -> Dec(<<2, 5, 5>>)
      [] t = Ty(16, TRUE)   -> Dec(<<1, 8, 1>>)
      [] t = Ty(32, FALSE)  -> Dec(<<6, 5, 5, 3, 5>>)
      [] t = Ty(32, TRUE)   -> Dec(<<4, 6, 3, 4, 0>>)
      [] t = Ty(64, FALSE)  -> Dec(<<4, 2, 9, 4, 9, 6, 7, 2, 9, 5>>)
      [] t = Ty(64, TRUE)   -> Dec(<<3, 0, 3, 7, 0, 0, 0, 4, 9, 9>>)
      [] t = Ty(128, FALSE) ->
             Dec(<<1, 8, 4, 4, 6, 7, 4, 4, 0, 7, 3, 7, 0, 9, 5, 5, 1, 6, 1, 5>>)
      [] t = Ty(128, TRUE)  ->
             Dec(<<1, 3, 0, 4, 3, 8, 1, 7, 8, 2, 5, 3, 3, 2, 7, 8, 2, 2, 1, 2>>)

\* C4: for each width, signed and unsigned, integer_sqrt($t::MAX) is the floor
\* of the square root of $t::MAX (15, 11, 255, 181, 65535, 46340, 4294967295,
\* 3037000499, 18446744073709551615, floor(sqrt(2^127 - 1))): r*r <= MAX and
\* (r+1)*(r+1) is above MAX.
C4_SqrtOfMax ==
    (Done /\ self = MaxValue(ty)) =>
        /\ ret.kind = "value"
        /\ NatEq(ret.val, SqrtOfMax(ty))
        /\ IsFloorSqrt(ret.val, self)

\* C5: in every iteration of the digit loop, for every n >= 0, the square of
\* the trial result is overflow-safe: when the true square does not fit in the
\* type the trial digit is rejected (result keeps the doubled value) and no
\* failure reaches the caller; result << 1 and result + 1 stay in the type.
\* Stated of the iteration that is about to run.
C5_SquareOverflowSafe ==
    (pc = "digits" /\ ~IsNegative(ty, self)) =>
        LET doubled   == Shl1(ty, result)
            candidate == AddOne(ty, doubled)
            b         == DigitBody(overflow_checks, ty, self, shift, result)
        IN  /\ NatEq(doubled, NatAdd(result, result))
            /\ ~IsNegative(ty, doubled)
            /\ ~candidate.overflow
            /\ b.panic = ""
            /\ ~NatLeq(NatMul(candidate.value, candidate.value), MaxValue(ty))
                   => b.result = doubled

\* C6: integer_sqrt is monotone on each type: for a <= b of one type, neither
\* negative, integer_sqrt(a) and integer_sqrt(b) both return a value and
\* integer_sqrt(a) <= integer_sqrt(b).
C6_Monotone ==
    (/\ Done
     /\ first # NoCall
     /\ first.ty = ty
     /\ ~IsNegative(ty, first.self) /\ ~IsNegative(ty, self)
     /\ NatLeq(first.self, self)) =>
        /\ first.ret.kind = "value"
        /\ ret.kind = "value"
        /\ NatLeq(first.ret.val, ret.val)

\* C7: any two instantiations give a value n >= 0 that both types hold the same
\* outcome of integer_sqrt_checked, with the same number in it.
C7_SameAcrossTypes ==
    (/\ Done
     /\ first # NoCall
     /\ first.ty # ty
     /\ ~IsNegative(first.ty, first.self) /\ ~IsNegative(ty, self)
     /\ NatEq(first.self, self)) =>
        /\ first.checked.kind = checked.kind
        /\ NatEq(first.checked.val, checked.val)

\* how far a call has got: every step of a call raises it
Progress ==
    nsearch + ndigit +
        (CASE pc = "integer_sqrt" -> 0
           [] pc = "search"       -> 1
           [] pc = "digits"       -> 2
           [] pc = "expect"       -> 3
           [] Done                -> 4)

C8_Bounds ==
    LET W == ty.bits
    IN  /\ pc \in {"integer_sqrt", "search", "digits", "expect", "returned", "panicked"}
        /\ nsearch <= (W \div 2) - 1
        /\ shift <= W
        /\ ndigit <= W \div 2
        /\ pc = "search" => shift = 2 + 2 * nsearch
        /\ pc = "digits" => (shift >= 0 /\ shift = 2 * nsearch - 2 * ndigit)
        /\ checked.kind = "Some" => (shift = 0 /\ ndigit = nsearch + 1)

\* C8: every call ends: the while loop adds 2 to shift at most W/2 - 1 times
\* and shift never exceeds W; loop { } runs at most W/2 times, shift going down
\* by 2 from one iteration to the next until the iteration at shift 0, after
\* which the loop is left.  Every step of a call raises Progress, which the
\* bounds keep at W + 3 or less, so that a call takes at most W + 3 steps.
C8_Terminates == []C8_Bounds /\ [][Progress' > Progress]_vars

\* a call that took the greatest number of iterations of both loops and ended
C8_Witness ==
    /\ pc = "returned"
    /\ nsearch = (ty.bits \div 2) - 1
    /\ ndigit = ty.bits \div 2

\* C9: when the search is over, shift is even, 0 <= shift <= W-2, shift is 0
\* for n < 4, and n >> shift is 1, 2 or 3 for n >= 1: shift is the greatest even
\* s with n >> s non-zero.  When the search reaches shift = W, the top pair of
\* bits of n is not zero, the shift modulo the width gave n itself, the loop
\* stops there, and no shift above W-2 reaches the digit loop.
C9_GreatestShift ==
    LET W == ty.bits
    IN  /\ (pc = "digits" /\ ndigit = 0) =>
               /\ shift % 2 = 0 /\ 0 <= shift /\ shift <= W - 2
               /\ NatLt(self, <<4>>) => shift = 0
               /\ ~IsZero(self) =>
                      /\ ~IsZero(Shr(ty, self, shift))
                      /\ NatLeq(Shr(ty, self, shift), <<3>>)
        /\ (pc = "search" /\ shift = W) =>
               /\ ~IsZero(Shr(ty, self, W - 2))
               /\ n_shifted = self
               /\ ~SearchCond(ty, self, n_shifted)
        /\ pc = "search" => shift <= W
        /\ pc = "digits" => shift <= W - 2

\* the search went up to shift = W and handed W-2 to the digit loop
C9_Witness ==
    /\ pc = "digits" /\ ndigit = 0
    /\ nsearch = (ty.bits \div 2) - 1
    /\ shift = ty.bits - 2
    /\ n_shifted = self

\* C10: at the end of the iteration of the digit loop that works on shift s,
\* result is the floor of the square root of n >> s; so result < 2^(W/2) in an
\* unsigned type, and an iteration appends one bit, 0 or 1, to result.
C10_DigitInvariant ==
    /\ (ndigit >= 1 /\ (pc = "digits" \/ checked.kind = "Some")) =>
           LET s == IF pc = "digits" THEN shift + 2 ELSE 0
           IN  /\ IsFloorSqrt(result, Shr(ty, self, s))
               /\ ~ty.signed => BelowPow2(ty, result, ty.bits \div 2)
    /\ pc = "digits" =>
           LET b == DigitBody(overflow_checks, ty, self, shift, result)
           IN  b.panic = "" =>
                   \/ b.result = Shl1(ty, result)
                   \/ b.result = AddOne(ty, Shl1(ty, result)).value

===========================================================================
